---- MODULE Spec2Model ----
(***************************************************************************)
(* Verification model of server/lib/payments.js of the Open Collective API *)
(* (refund transaction pairing, order execution, fee cascades).            *)
(***************************************************************************)
EXTENDS Integers, Sequences, FiniteSets, TLC

VARIABLES
    txs,          \* the Transactions table, a sequence indexed by row id
    refundCalls,  \* the createRefundTransaction calls and their positions
    order,        \* the Order instance handed to executeOrder
    subs,         \* the Subscriptions table, a sequence indexed by row id
    execCalls,    \* the executeOrder calls and their positions
    provider,     \* what the payment provider's processOrder has been asked
    emails,       \* notifications sent by sendEmailNotifications
    feeIn,        \* the arguments of the fee functions
    feeOut,       \* the values the fee functions returned
    accessIn,     \* the user and the order of an Order accessor call
    accessOut,    \* what the Order accessor returned
    mailConf,     \* the collective, its settings, subscribers and admins
    held,         \* emails left on the mail server for approval
    sent,         \* the messages handed to emailLib.send / emailLib.sendMessage
    webhooks,     \* how many emails the mail webhook has received
    mailLog,      \* the last mail request and its response
    settleIn,     \* the host, its plan and its pending transactions
    settleCall,   \* the settleDebtsLegacy call and its position
    settleDb      \* the rows and files settleDebtsLegacy has created

vars == <<txs, refundCalls, order, subs, execCalls, provider, emails, feeIn, feeOut,
          accessIn, accessOut, mailConf, held, sent, webhooks, mailLog,
          settleIn, settleCall, settleDb>>

refundVars == <<txs, refundCalls>>
orderVars == <<order, subs, execCalls, provider, emails>>
feeVars == <<feeIn, feeOut>>
coreVars == <<refundVars, orderVars, feeVars>>
accessVars == <<accessIn, accessOut>>
mailVars == <<mailConf, held, sent, webhooks, mailLog>>
settleVars == <<settleIn, settleCall, settleDb>>
extraVars == <<accessVars, mailVars, settleVars>>

\* null / undefined of the source
NULL == 0

(***************************************************************************)
(* Bounds                                                                  *)
(***************************************************************************)
MaxRefundCalls == 2
MaxExecCalls == 2
MaxMails == 2

RefundCallIds == 1..MaxRefundCalls
ExecCallIds == 1..MaxExecCalls

(***************************************************************************)
(* Transactions                                                            *)
(***************************************************************************)
HostFees == {0, -10}
PlatformFees == {0, -5}
PaymentProcessorFees == {0, -3}
\* refundedPaymentProcessorFee as the providers pass it
RefundedFees == {0, 3}

\* the accounts of the ledgers; 8686 is the platform's collective
Accounts == [Contributor |-> 11, Collective |-> 12, Host |-> 13, Platform |-> 8686]

\* Math.round(n / d) for an integer n and a positive integer d
RoundDiv(n, d) == (2 * n + d) \div (2 * d)

\* lib/transactions netAmount
NetAmount(t) ==
    RoundDiv(t.amountInHostCurrency + t.hostFeeInHostCurrency
               + t.platformFeeInHostCurrency + t.paymentProcessorFeeInHostCurrency,
             t.hostCurrencyFxRate)

\* the payload stripe's processOrder hands to Transaction.createFromPayload
ContributionPayload(hostFee, platformFee, processorFee, feesOnTop) ==
    [ currency |-> "USD", FromCollectiveId |-> Accounts.Contributor, CollectiveId |-> Accounts.Collective,
      HostCollectiveId |-> Accounts.Host, PaymentMethodId |-> 1, OrderId |-> 1, ExpenseId |-> NULL,
      hostCurrencyFxRate |-> 1, hostCurrency |-> "USD",
      hostFeeInHostCurrency |-> hostFee, platformFeeInHostCurrency |-> platformFee,
      paymentProcessorFeeInHostCurrency |-> processorFee,
      isFeesOnTop |-> feesOnTop, kind |-> "CONTRIBUTION",
      amount |-> 100, amountInHostCurrency |-> 100,
      netAmountInCollectiveCurrency |-> 100 + hostFee + platformFee + processorFee,
      isRefund |-> FALSE ]

\* the platform tip that accompanies a fees-on-top contribution
PlatformTipPayload ==
    [ currency |-> "USD", FromCollectiveId |-> Accounts.Contributor, CollectiveId |-> Accounts.Platform,
      HostCollectiveId |-> Accounts.Platform, PaymentMethodId |-> 1, OrderId |-> 1, ExpenseId |-> NULL,
      hostCurrencyFxRate |-> 1, hostCurrency |-> "USD",
      hostFeeInHostCurrency |-> 0, platformFeeInHostCurrency |-> 0,
      paymentProcessorFeeInHostCurrency |-> 0,
      isFeesOnTop |-> FALSE, kind |-> "PLATFORM_TIP",
      amount |-> 20, amountInHostCurrency |-> 20,
      netAmountInCollectiveCurrency |-> 20,
      isRefund |-> FALSE ]

\* the lone CREDIT settleDebtsLegacy creates for a host
SettlementCredit ==
    [ currency |-> "USD", FromCollectiveId |-> Accounts.Host, CollectiveId |-> Accounts.Host,
      HostCollectiveId |-> Accounts.Host, PaymentMethodId |-> NULL, OrderId |-> NULL, ExpenseId |-> NULL,
      hostCurrencyFxRate |-> 1, hostCurrency |-> "USD",
      hostFeeInHostCurrency |-> 0, platformFeeInHostCurrency |-> 0,
      paymentProcessorFeeInHostCurrency |-> 0,
      isFeesOnTop |-> FALSE, kind |-> "NONE",
      amount |-> 50, amountInHostCurrency |-> 50,
      netAmountInCollectiveCurrency |-> 50,
      isRefund |-> FALSE ]

\* a row of the table: the payload plus what the table adds
Row(payload, id, type, group) ==
    [ id |-> id, type |-> type, TransactionGroup |-> group, RefundTransactionId |-> NULL,
      currency |-> payload.currency,
      FromCollectiveId |-> payload.FromCollectiveId, CollectiveId |-> payload.CollectiveId,
      HostCollectiveId |-> payload.HostCollectiveId, PaymentMethodId |-> payload.PaymentMethodId,
      OrderId |-> payload.OrderId, ExpenseId |-> payload.ExpenseId,
      hostCurrencyFxRate |-> payload.hostCurrencyFxRate, hostCurrency |-> payload.hostCurrency,
      hostFeeInHostCurrency |-> payload.hostFeeInHostCurrency,
      platformFeeInHostCurrency |-> payload.platformFeeInHostCurrency,
      paymentProcessorFeeInHostCurrency |-> payload.paymentProcessorFeeInHostCurrency,
      isFeesOnTop |-> payload.isFeesOnTop, kind |-> payload.kind,
      amount |-> payload.amount, amountInHostCurrency |-> payload.amountInHostCurrency,
      netAmountInCollectiveCurrency |-> payload.netAmountInCollectiveCurrency,
      isRefund |-> payload.isRefund ]

TypeOf(payload) == IF payload.amount > 0 THEN "CREDIT" ELSE "DEBIT"

\* the row of the other ledger: collectives swapped, amount and net amount
\* swapped and negated
OppositePayload(payload) ==
    [payload EXCEPT !.FromCollectiveId = payload.CollectiveId,
                    !.CollectiveId = payload.FromCollectiveId,
                    !.amount = -payload.netAmountInCollectiveCurrency,
                    !.amountInHostCurrency = -payload.netAmountInCollectiveCurrency * payload.hostCurrencyFxRate,
                    !.netAmountInCollectiveCurrency = -payload.amount]

\* the two rows of a double entry, the DEBIT one first
DoubleEntryRows(payload, firstId, group) ==
    IF TypeOf(payload) = "DEBIT"
    THEN << Row(payload, firstId, "DEBIT", group),
            Row(OppositePayload(payload), firstId + 1, "CREDIT", group) >>
    ELSE << Row(OppositePayload(payload), firstId, "DEBIT", group),
            Row(payload, firstId + 1, "CREDIT", group) >>

Max(S) == CHOOSE x \in S : \A y \in S : y <= x

NewGroup(table) ==
    IF Len(table) = 0 THEN 1
    ELSE 1 + Max({table[i].TransactionGroup : i \in 1..Len(table)})

\* models.Transaction.createDoubleEntry: both rows are inserted under a
\* fresh TransactionGroup
CreateDoubleEntry(table, payload) ==
    table \o DoubleEntryRows(payload, Len(table) + 1, NewGroup(table))

\* the id of the created row that carries the payload passed in
CreatedId(table, payload) ==
    IF TypeOf(payload) = "DEBIT" THEN Len(table) + 1 ELSE Len(table) + 2

\* refundedPaymentProcessorFee === 0
FeeNotRefunded(refundedPaymentProcessorFee) == refundedPaymentProcessorFee = 0

\* buildRefund with the processor fee dropped instead of moved to the host
\* a contribution in a currency that is not the host's: 100.00 EUR charged as
\* 200.00 USD
ForeignContributionPayload(hostFee, platformFee, processorFee) ==
    [ContributionPayload(hostFee, platformFee, processorFee, FALSE) EXCEPT
        !.currency = "EUR", !.hostCurrencyFxRate = 2, !.amountInHostCurrency = 200,
        !.netAmountInCollectiveCurrency =
            RoundDiv(200 + hostFee + platformFee + processorFee, 2)]

buildRefund_NoHostCover(t, refundedPaymentProcessorFee) ==
    [ currency |-> t.currency, FromCollectiveId |-> t.FromCollectiveId,
      CollectiveId |-> t.CollectiveId, HostCollectiveId |-> t.HostCollectiveId,
      PaymentMethodId |-> t.PaymentMethodId, OrderId |-> t.OrderId,
      ExpenseId |-> t.ExpenseId, hostCurrencyFxRate |-> t.hostCurrencyFxRate,
      hostCurrency |-> t.hostCurrency,
      hostFeeInHostCurrency |-> -t.hostFeeInHostCurrency,
      platformFeeInHostCurrency |-> -t.platformFeeInHostCurrency,
      paymentProcessorFeeInHostCurrency |->
          IF FeeNotRefunded(refundedPaymentProcessorFee) THEN 0
          ELSE -t.paymentProcessorFeeInHostCurrency,
      isFeesOnTop |-> t.isFeesOnTop, kind |-> t.kind,
      amount |-> -t.amount, amountInHostCurrency |-> -t.amountInHostCurrency,
      netAmountInCollectiveCurrency |-> -NetAmount(t),
      isRefund |-> TRUE ]

\* buildRefund of createRefundTransaction
buildRefund(t, refundedPaymentProcessorFee) ==
    LET negHost == -t.hostFeeInHostCurrency
        negPlatform == -t.platformFeeInHostCurrency
        negProcessor == -t.paymentProcessorFeeInHostCurrency
    IN  [ currency |-> t.currency, FromCollectiveId |-> t.FromCollectiveId,
          CollectiveId |-> t.CollectiveId, HostCollectiveId |-> t.HostCollectiveId,
          PaymentMethodId |-> t.PaymentMethodId, OrderId |-> t.OrderId,
          ExpenseId |-> t.ExpenseId, hostCurrencyFxRate |-> t.hostCurrencyFxRate,
          hostCurrency |-> t.hostCurrency,
          hostFeeInHostCurrency |->
              IF FeeNotRefunded(refundedPaymentProcessorFee)
              THEN negHost + negProcessor ELSE negHost,
          platformFeeInHostCurrency |-> negPlatform,
          paymentProcessorFeeInHostCurrency |->
              IF FeeNotRefunded(refundedPaymentProcessorFee) THEN 0 ELSE negProcessor,
          isFeesOnTop |-> t.isFeesOnTop, kind |-> t.kind,
          amount |-> -t.amount, amountInHostCurrency |-> -t.amountInHostCurrency,
          netAmountInCollectiveCurrency |-> -NetAmount(t),
          isRefund |-> TRUE ]

RowIds(table) == 1..Len(table)

\* Transaction.findOne({ TransactionGroup, id != transaction.id }): the rows
\* the query matches; with no ORDER BY the database may return any of them
FindOneCandidates(table, id) ==
    {i \in RowIds(table) : table[i].TransactionGroup = table[id].TransactionGroup /\ i # id}

\* Transaction.getPlatformTipTransaction
getPlatformTipTransaction(table, id) ==
    LET tips == {i \in RowIds(table) :
                    /\ table[i].TransactionGroup = table[id].TransactionGroup
                    /\ table[i].kind = "PLATFORM_TIP"
                    /\ table[i].type = table[id].type}
    IN  IF tips = {} THEN NULL ELSE CHOOSE i \in tips : \A j \in tips : i <= j

\* Transaction.findAll({ order: ['id'], where: group of either })
RECURSIVE SortedSeq(_)
SortedSeq(S) ==
    IF S = {} THEN <<>>
    ELSE LET m == CHOOSE x \in S : \A y \in S : x <= y
         IN  <<m>> \o SortedSeq(S \ {m})

FindAllOfGroups(table, g1, g2) ==
    SortedSeq({i \in RowIds(table) :
                  table[i].TransactionGroup = g1 \/ table[i].TransactionGroup = g2})

\* associateTransactionRefundId: the first four rows found are linked
\* crosswise; with fewer than four rows tr4 is undefined and reading tr4.id
\* throws before anything is saved
AssociateThrows(table, id, refundId) ==
    Len(FindAllOfGroups(table, table[id].TransactionGroup, table[refundId].TransactionGroup)) < 4

associateTransactionRefundId(table, id, refundId) ==
    LET found == FindAllOfGroups(table, table[id].TransactionGroup,
                                 table[refundId].TransactionGroup)
        tr1 == found[1]
        tr2 == found[2]
        tr3 == found[3]
        tr4 == found[4]
    IN  [i \in RowIds(table) |->
            IF i = tr1 THEN [table[i] EXCEPT !.RefundTransactionId = tr4]
            ELSE IF i = tr2 THEN [table[i] EXCEPT !.RefundTransactionId = tr3]
            ELSE IF i = tr3 THEN [table[i] EXCEPT !.RefundTransactionId = tr2]
            ELSE IF i = tr4 THEN [table[i] EXCEPT !.RefundTransactionId = tr1]
            ELSE table[i]]

(***************************************************************************)
(* createRefundTransaction                                                 *)
(***************************************************************************)
IdleRefundCall ==
    [ pc |-> "idle", txId |-> NULL, fee |-> 0, creditId |-> NULL, refund |-> <<>>,
      refundId |-> NULL, tipId |-> NULL, tipRefundId |-> NULL, created |-> {}, outcome |-> "none" ]

\* the ledgers the program builds before any refund
ContributionLedger(payload) == CreateDoubleEntry(<<>>, payload)

TipFirstLedger(payload) ==
    DoubleEntryRows(PlatformTipPayload, 1, 1) \o DoubleEntryRows(payload, 3, 1)

TipLastLedger(payload) ==
    DoubleEntryRows(payload, 1, 1) \o DoubleEntryRows(PlatformTipPayload, 3, 1)

WithSettlement(table) ==
    Append(table, Row(SettlementCredit, Len(table) + 1, "CREDIT", NewGroup(table)))

InitialLedgers ==
    LET plain == {ContributionLedger(ContributionPayload(h, p, f, o)) :
                     <<h, p, f, o>> \in HostFees \X PlatformFees \X PaymentProcessorFees \X BOOLEAN}
        tipped == UNION {{TipFirstLedger(ContributionPayload(h, p, f, TRUE)),
                          TipLastLedger(ContributionPayload(h, p, f, TRUE))} :
                            <<h, p, f>> \in HostFees \X PlatformFees \X PaymentProcessorFees}
        foreign == {ContributionLedger(ForeignContributionPayload(h, p, f)) :
                       <<h, p, f>> \in HostFees \X PlatformFees \X PaymentProcessorFees}
        base == plain \cup tipped \cup foreign
    IN  base \cup {WithSettlement(l) : l \in base} \cup {WithSettlement(<<>>)}

RefundInFlight(c) == refundCalls[c].pc \notin {"idle", "done"}

RefundsStarted == Cardinality({c \in RefundCallIds : refundCalls[c].pc # "idle"})

EndRefund(call, outcome) == [call EXCEPT !.pc = "done", !.outcome = outcome]

\* lines 149-166 and 213: pick the CREDIT transaction, refuse a refunded
\* one, build the refund of the CREDIT transaction
RefundStartWith_FromRequested(c, id, fee, creditId) ==
    LET call == [IdleRefundCall EXCEPT !.txId = id, !.fee = fee, !.creditId = creditId]
    IN  /\ refundCalls' = [refundCalls EXCEPT ![c] =
              IF creditId = NULL THEN EndRefund(call, "CannotFindCredit")
              ELSE IF txs[creditId].RefundTransactionId # NULL
                   THEN EndRefund(call, "AlreadyRefunded")
              ELSE [call EXCEPT !.refund = <<buildRefund(txs[id], fee)>>,
                                !.pc = IF txs[id].isFeesOnTop THEN "tip" ELSE "create"]]
        /\ UNCHANGED txs

RefundStartWith(c, id, fee, creditId) ==
    LET call == [IdleRefundCall EXCEPT !.txId = id, !.fee = fee, !.creditId = creditId]
    IN  /\ refundCalls' = [refundCalls EXCEPT ![c] =
              IF creditId = NULL THEN EndRefund(call, "CannotFindCredit")
              ELSE IF txs[creditId].RefundTransactionId # NULL
                   THEN EndRefund(call, "AlreadyRefunded")
              ELSE [call EXCEPT !.refund = <<buildRefund(txs[creditId], fee)>>,
                                !.pc = IF txs[id].isFeesOnTop THEN "tip" ELSE "create"]]
        /\ UNCHANGED txs

\* the calls are made one after another
createRefundTransaction(c, id, fee) ==
    /\ refundCalls[c].pc = "idle"
    /\ c = RefundsStarted + 1
    /\ \A d \in RefundCallIds : ~RefundInFlight(d)
    /\ IF txs[id].type = "CREDIT"
       THEN RefundStartWith(c, id, fee, id)
       ELSE IF FindOneCandidates(txs, id) = {}
            THEN RefundStartWith(c, id, fee, NULL)
            ELSE \E creditId \in FindOneCandidates(txs, id) : RefundStartWith(c, id, fee, creditId)
    /\ UNCHANGED <<orderVars, feeVars, extraVars>>

\* the two calls of an interleaving
InterleavedCallIds == {1, 2}

\* the calls are made while earlier ones are still between two awaits
createRefundTransactionInterleaved(c, id, fee) ==
    /\ refundCalls[c].pc = "idle"
    /\ c = RefundsStarted + 1
    /\ IF txs[id].type = "CREDIT"
       THEN RefundStartWith(c, id, fee, id)
       ELSE IF FindOneCandidates(txs, id) = {}
            THEN RefundStartWith(c, id, fee, NULL)
            ELSE \E creditId \in FindOneCandidates(txs, id) : RefundStartWith(c, id, fee, creditId)
    /\ UNCHANGED <<orderVars, feeVars, extraVars>>

\* lines 215-220: refund the platform tip of a fees-on-top transaction
RefundPlatformTip(c) ==
    LET call == refundCalls[c]
        tip == getPlatformTipTransaction(txs, call.txId)
    IN  /\ call.pc = "tip"
        /\ IF tip = NULL
           THEN /\ refundCalls' = [refundCalls EXCEPT ![c] = EndRefund(call, "TypeError")]
                /\ UNCHANGED txs
           ELSE LET feeOnTopRefund == buildRefund(txs[tip], call.fee)
                    table == CreateDoubleEntry(txs, feeOnTopRefund)
                    refundId == CreatedId(txs, feeOnTopRefund)
                    made == call.created \cup {Len(txs) + 1, Len(txs) + 2}
                IN  IF AssociateThrows(table, tip, refundId)
                    THEN /\ txs' = table
                         /\ refundCalls' = [refundCalls EXCEPT ![c] =
                                EndRefund([call EXCEPT !.created = made, !.tipId = tip,
                                                      !.tipRefundId = refundId], "TypeError")]
                    ELSE /\ txs' = associateTransactionRefundId(table, tip, refundId)
                         /\ refundCalls' = [refundCalls EXCEPT ![c] =
                                [call EXCEPT !.created = made, !.tipId = tip,
                                             !.tipRefundId = refundId, !.pc = "create"]]
        /\ UNCHANGED <<orderVars, feeVars, extraVars>>

\* line 222: the double entry of the refund
RefundCreateDoubleEntry(c) ==
    LET call == refundCalls[c]
        payload == call.refund[1]
    IN  /\ call.pc = "create"
        /\ txs' = CreateDoubleEntry(txs, payload)
        /\ refundCalls' = [refundCalls EXCEPT ![c] =
              [call EXCEPT !.refundId = CreatedId(txs, payload),
                           !.created = call.created \cup {Len(txs) + 1, Len(txs) + 2},
                           !.pc = "associate"]]
        /\ UNCHANGED <<orderVars, feeVars, extraVars>>

\* line 223: link the transaction and its refund
RefundAssociate(c) ==
    LET call == refundCalls[c]
    IN  /\ call.pc = "associate"
        /\ IF AssociateThrows(txs, call.txId, call.refundId)
           THEN /\ refundCalls' = [refundCalls EXCEPT ![c] = EndRefund(call, "TypeError")]
                /\ UNCHANGED txs
           ELSE /\ txs' = associateTransactionRefundId(txs, call.txId, call.refundId)
                /\ refundCalls' = [refundCalls EXCEPT ![c] = EndRefund(call, "Refunded")]
        /\ UNCHANGED <<orderVars, feeVars, extraVars>>

(***************************************************************************)
(* JavaScript values that may be undefined or a number                      *)
(***************************************************************************)
Undefined == [t |-> "undefined", v |-> 0]
Num(n) == [t |-> "number", v |-> n]

\* lodash isNumber
isNumber(x) == x.t = "number"

\* JavaScript truthiness of such a value
Truthy(x) == x.t = "number" /\ x.v # 0

\* a || b
OrElse(a, b) == IF Truthy(a) THEN a ELSE b

(***************************************************************************)
(* executeOrder                                                            *)
(***************************************************************************)
Intervals == {"null", "month", "year", "week"}
TotalAmounts == {Undefined, Num(0), Num(500)}
OrderStatuses == {"NEW", "PENDING"}

IdleExecCall ==
    [ pc |-> "idle", userIsUser |-> TRUE, orderIsOrder |-> TRUE, transaction |-> FALSE,
      subscriptionId |-> NULL, result |-> "none", error |-> "none" ]

ExecInFlight(c) == execCalls[c].pc \notin {"idle", "done"}

ExecsStarted == Cardinality({c \in ExecCallIds : execCalls[c].pc # "idle"})

Reject(call, error) == [call EXCEPT !.pc = "done", !.result = "rejected", !.error = error]
Resolve(call) == [call EXCEPT !.pc = "done", !.result = "resolved"]

\* validatePayment that accepts a missing amount
validatePayment_NoAmountCheck(payment) ==
    IF payment.interval # "null" /\ payment.interval \notin {"month", "year"}
    THEN "Interval should be null, month or year."
    ELSE "none"

\* validatePayment: the error it throws, or "none"
validatePayment(payment) ==
    IF payment.interval # "null" /\ payment.interval \notin {"month", "year"}
    THEN "Interval should be null, month or year."
    ELSE IF ~Truthy(payment.amount)
    THEN "payment.amount missing"
    ELSE "none"

\* the head of executeOrder without the processedAt check
ExecuteOrderGuard_NoProcessedAtCheck(userIsUser, orderIsOrder, o) ==
    IF ~userIsUser THEN "user should be an instance of the User model"
    ELSE IF ~orderIsOrder THEN "order should be an instance of the Order model"
    ELSE validatePayment([amount |-> o.totalAmount, interval |-> o.interval])

\* the synchronous head of executeOrder: the error it rejects with, or "none"
ExecuteOrderGuard(userIsUser, orderIsOrder, o) ==
    IF ~userIsUser THEN "user should be an instance of the User model"
    ELSE IF ~orderIsOrder THEN "order should be an instance of the Order model"
    ELSE IF o.processedAt # NULL THEN "This order has already been processed"
    ELSE validatePayment([amount |-> o.totalAmount, interval |-> o.interval])

\* lines 300-325; the calls are made one after another
executeOrder(c, userIsUser, orderIsOrder) ==
    LET call == [IdleExecCall EXCEPT !.userIsUser = userIsUser, !.orderIsOrder = orderIsOrder]
        error == ExecuteOrderGuard(userIsUser, orderIsOrder, order)
    IN  /\ execCalls[c].pc = "idle"
        /\ c = ExecsStarted + 1
        /\ \A d \in ExecCallIds : ~ExecInFlight(d)
        /\ execCalls' = [execCalls EXCEPT ![c] =
              IF error # "none" THEN Reject(call, error) ELSE [call EXCEPT !.pc = "populate"]]
        /\ UNCHANGED <<order, subs, provider, emails, refundVars, feeVars, extraVars>>

\* the calls are made while earlier ones are still between two awaits
executeOrderInterleaved(c, userIsUser, orderIsOrder) ==
    LET call == [IdleExecCall EXCEPT !.userIsUser = userIsUser, !.orderIsOrder = orderIsOrder]
        error == ExecuteOrderGuard(userIsUser, orderIsOrder, order)
    IN  /\ execCalls[c].pc = "idle"
        /\ c = ExecsStarted + 1
        /\ execCalls' = [execCalls EXCEPT ![c] =
              IF error # "none" THEN Reject(call, error) ELSE [call EXCEPT !.pc = "populate"]]
        /\ UNCHANGED <<order, subs, provider, emails, refundVars, feeVars, extraVars>>

\* lines 327-328: order.populate and validatePlanRequest, which may throw
ExecValidatePlanRequest(c) ==
    /\ execCalls[c].pc = "populate"
    /\ \E planOk \in BOOLEAN :
          execCalls' = [execCalls EXCEPT ![c] =
              IF planOk THEN [@ EXCEPT !.pc = "process"] ELSE Reject(@, "validatePlanRequest")]
    /\ UNCHANGED <<order, subs, provider, emails, refundVars, feeVars, extraVars>>

\* processOrder that ignores features.waitToCharge
ProviderIsCalled_Always(o) == TRUE

\* processOrder: whether the provider is asked to charge at all
ProviderIsCalled(o) == ~(o.waitToCharge /\ ~o.paid)

\* line 330 and processOrder
ExecProcessOrder(c) ==
    /\ execCalls[c].pc = "process"
    /\ IF ProviderIsCalled(order)
       THEN \E answer \in {"transaction", "nothing", "throws"} :
               /\ provider' = [calls |-> provider.calls + 1,
                               transactions |-> provider.transactions
                                                  + (IF answer = "transaction" THEN 1 ELSE 0)]
               /\ execCalls' = [execCalls EXCEPT ![c] =
                     IF answer = "throws" THEN Reject(@, "processOrder")
                     ELSE IF answer = "transaction"
                          THEN [@ EXCEPT !.transaction = TRUE, !.pc = "paid"]
                     ELSE [@ EXCEPT !.pc = "notify"]]
       ELSE /\ execCalls' = [execCalls EXCEPT ![c] = [@ EXCEPT !.pc = "notify"]]
            /\ UNCHANGED provider
    /\ UNCHANGED <<order, subs, emails, refundVars, feeVars, extraVars>>

\* the value new Date() takes in the c-th call
Now(c) == c

\* line 332
ExecMarkPaid(c) ==
    /\ execCalls[c].pc = "paid"
    /\ order' = [order EXCEPT !.status = "PAID", !.processedAt = Now(c)]
    /\ execCalls' = [execCalls EXCEPT ![c] = [@ EXCEPT !.pc = "register"]]
    /\ UNCHANGED <<subs, provider, emails, refundVars, feeVars, extraVars>>

\* lines 334-358: backer roles, plan upgrade, prepaid budget; any may throw
ExecRegisterBacker(c) ==
    /\ execCalls[c].pc = "register"
    /\ \E ok \in BOOLEAN :
          execCalls' = [execCalls EXCEPT ![c] =
              IF ok THEN [@ EXCEPT !.pc = "notify"] ELSE Reject(@, "afterCharge")]
    /\ UNCHANGED <<order, subs, provider, emails, refundVars, feeVars, extraVars>>

\* sendEmailNotifications: the notifications it starts
sendEmailNotifications(o, transaction) ==
    IF transaction THEN {"order.confirmed"}
    ELSE IF o.status = "PENDING"
    THEN {"order.processing", "order.new.pendingFinancialContribution"}
    ELSE {}

\* lines 361-384: save the payment method, notify, register the gift card
\* emitter (which may throw), decide on the subscription
ExecNotify(c) ==
    LET call == execCalls[c]
    IN  /\ call.pc = "notify"
        /\ order' = [order EXCEPT !.paymentMethodSaved = @ \/ order.savePaymentMethod]
        /\ emails' = emails \cup {<<c, e>> : e \in sendEmailNotifications(order, call.transaction)}
        /\ \E giftCardOk \in (IF call.transaction THEN BOOLEAN ELSE {TRUE}) :
              execCalls' = [execCalls EXCEPT ![c] =
                  IF ~giftCardOk THEN Reject(call, "giftCardBacker")
                  ELSE IF order.interval # "null" /\ call.transaction
                       THEN [call EXCEPT !.pc = "subscribe"]
                  ELSE Resolve(call)]
        /\ UNCHANGED <<subs, provider, refundVars, feeVars, extraVars>>

\* createSubscription that leaves the subscription inactive and uncharged
NewSubscription_Inactive(o, id) ==
    [ id |-> id, amount |-> o.totalAmount, interval |-> o.interval,
      chargeNumber |-> 0, isActive |-> FALSE ]

\* createSubscription, lines 267-287: the row with the fields set and saved
NewSubscription(o, id) ==
    [ id |-> id, amount |-> o.totalAmount, interval |-> o.interval,
      chargeNumber |-> 1, isActive |-> TRUE ]

ExecCreateSubscription(c) ==
    /\ execCalls[c].pc = "subscribe"
    /\ subs' = Append(subs, NewSubscription(order, Len(subs) + 1))
    /\ execCalls' = [execCalls EXCEPT ![c] =
          [@ EXCEPT !.subscriptionId = Len(subs) + 1, !.pc = "activate"]]
    /\ UNCHANGED <<order, provider, emails, refundVars, feeVars, extraVars>>

\* createSubscription, lines 288-291; order.Subscription is the row just made
ExecActivateOrder(c) ==
    /\ execCalls[c].pc = "activate"
    /\ order' = [order EXCEPT !.status = "ACTIVE", !.SubscriptionId = execCalls[c].subscriptionId]
    /\ execCalls' = [execCalls EXCEPT ![c] = Resolve(@)]
    /\ UNCHANGED <<subs, provider, emails, refundVars, feeVars, extraVars>>

InitialOrders ==
    [ id : {1}, interval : Intervals, totalAmount : TotalAmounts, status : OrderStatuses,
      processedAt : {NULL}, SubscriptionId : {NULL},
      waitToCharge : BOOLEAN, paid : BOOLEAN,
      savePaymentMethod : BOOLEAN, paymentMethodSaved : {FALSE} ]

(***************************************************************************)
(* Fee cascades                                                            *)
(***************************************************************************)
\* Math.round((amount * fee) / 100)
calcFee(amount, fee) == RoundDiv(amount * fee, 100)

\* possibleValues.find(isNumber)
RECURSIVE FindNumber(_)
FindNumber(possibleValues) ==
    IF possibleValues = <<>> THEN Undefined
    ELSE IF isNumber(Head(possibleValues)) THEN Head(possibleValues)
    ELSE FindNumber(Tail(possibleValues))

IsManual(pm) == pm.service = "opencollective" /\ pm.type = "manual"
IsCollectiveOrHost(pm) == pm.service = "opencollective" /\ pm.type \in {"collective", "host"}

\* the list getHostFeePercent collects
HostFeePossibleValues(in) ==
    <<in.data.hostFeePercent>>
    \o (IF IsManual(in.paymentMethod)
        THEN <<in.collective.bankTransfersHostFeePercent, in.host.bankTransfersHostFeePercent>>
        ELSE <<>>)
    \o (IF IsCollectiveOrHost(in.paymentMethod) THEN <<Num(0)>> ELSE <<>>)
    \o (IF in.paymentMethod.service = "stripe"
        THEN <<in.collective.creditCardHostFeePercent, in.host.creditCardHostFeePercent>>
        ELSE <<>>)
    \o (IF in.paymentMethod.service = "paypal"
        THEN <<in.collective.paypalHostFeePercent, in.host.paypalHostFeePercent>>
        ELSE <<>>)
    \o <<in.collective.hostFeePercent, in.config.hostPercent>>

\* getHostFeePercent that looks at the order before the host account
getHostFeePercent_OrderFirst(in) ==
    IF isNumber(in.data.hostFeePercent) THEN in.data.hostFeePercent
    ELSE IF in.collective.isHostAccount THEN Num(0)
    ELSE FindNumber(HostFeePossibleValues(in))

getHostFeePercent(in) ==
    IF in.collective.isHostAccount THEN Num(0)
    ELSE FindNumber(HostFeePossibleValues(in))

\* order.data?.platformFee || 0
FeeOnTop(in) == OrElse(in.data.platformFee, Num(0)).v

getHostFee(totalAmount, in) ==
    calcFee(totalAmount - FeeOnTop(in), getHostFeePercent(in).v)

\* the list without the zero default of bank transfers
PlatformFeePossibleValues_NoManualDefault(in) ==
    <<in.data.platformFeePercent>>
    \o (IF IsManual(in.paymentMethod)
        THEN <<in.collective.bankTransfersPlatformFeePercent,
               in.host.bankTransfersPlatformFeePercent>>
        ELSE <<>>)
    \o (IF IsCollectiveOrHost(in.paymentMethod) THEN <<Num(0)>> ELSE <<>>)
    \o <<in.collective.platformFeePercent, in.config.platformPercent>>

\* the list getPlatformFeePercent collects
PlatformFeePossibleValues(in) ==
    <<in.data.platformFeePercent>>
    \o (IF IsManual(in.paymentMethod)
        THEN <<in.collective.bankTransfersPlatformFeePercent,
               in.host.bankTransfersPlatformFeePercent, Num(0)>>
        ELSE <<>>)
    \o (IF IsCollectiveOrHost(in.paymentMethod) THEN <<Num(0)>> ELSE <<>>)
    \o <<in.collective.platformFeePercent, in.config.platformPercent>>

getPlatformFeePercent(in) == FindNumber(PlatformFeePossibleValues(in))

\* hostFeeSharePercent || hostPlan?.hostFeeSharePercent
SharedRevenuePercent(in) == OrElse(in.hostFeeSharePercent, in.hostPlan.hostFeeSharePercent)

\* getPlatformFee where fees on top exclude the shared revenue
getPlatformFee_Exclusive(totalAmount, in) ==
    IF in.data.isFeesOnTop THEN FeeOnTop(in)
    ELSE IF Truthy(SharedRevenuePercent(in))
    THEN FeeOnTop(in) + calcFee(getHostFee(totalAmount, in), SharedRevenuePercent(in).v)
    ELSE calcFee(totalAmount, getPlatformFeePercent(in).v)

getPlatformFee(totalAmount, in) ==
    IF in.data.isFeesOnTop \/ Truthy(SharedRevenuePercent(in))
    THEN FeeOnTop(in)
           + (IF Truthy(SharedRevenuePercent(in))
              THEN calcFee(getHostFee(totalAmount, in), SharedRevenuePercent(in).v)
              ELSE 0)
    ELSE calcFee(totalAmount, getPlatformFeePercent(in).v)

PaymentMethods ==
    { [service |-> "opencollective", type |-> "manual"],
      [service |-> "opencollective", type |-> "collective"],
      [service |-> "opencollective", type |-> "host"],
      [service |-> "opencollective", type |-> "giftcard"],
      [service |-> "stripe", type |-> "creditcard"],
      [service |-> "paypal", type |-> "payment"] }

NoData ==
    [ hostFeePercent |-> Undefined, platformFeePercent |-> Undefined,
      platformFee |-> Undefined, isFeesOnTop |-> FALSE ]

NoSettings ==
    [ bankTransfersHostFeePercent |-> Undefined, creditCardHostFeePercent |-> Undefined,
      paypalHostFeePercent |-> Undefined, bankTransfersPlatformFeePercent |-> Undefined ]

PlainCollective ==
    [ isHostAccount |-> FALSE, hostFeePercent |-> Num(10), platformFeePercent |-> Num(5),
      bankTransfersHostFeePercent |-> Undefined, creditCardHostFeePercent |-> Undefined,
      paypalHostFeePercent |-> Undefined, bankTransfersPlatformFeePercent |-> Undefined ]

DefaultConfig == [hostPercent |-> Num(10), platformPercent |-> Num(5)]

DefaultFeeIn ==
    [ totalAmount |-> 1000, data |-> NoData,
      paymentMethod |-> [service |-> "stripe", type |-> "creditcard"],
      collective |-> PlainCollective, host |-> NoSettings, config |-> DefaultConfig,
      hostFeeSharePercent |-> Undefined, hostPlan |-> [hostFeeSharePercent |-> Undefined] ]

\* orders, collectives and hosts that differ in what decides the host fee
HostFeeInputs ==
    { [DefaultFeeIn EXCEPT
          !.data = [NoData EXCEPT !.hostFeePercent = d],
          !.paymentMethod = pm,
          !.collective = [PlainCollective EXCEPT
              !.isHostAccount = isHost, !.hostFeePercent = ch,
              !.bankTransfersHostFeePercent = cb, !.creditCardHostFeePercent = cc,
              !.paypalHostFeePercent = cp],
          !.host = [NoSettings EXCEPT
              !.bankTransfersHostFeePercent = hb, !.creditCardHostFeePercent = hc,
              !.paypalHostFeePercent = hp],
          !.config = [DefaultConfig EXCEPT !.hostPercent = cfg]] :
        d \in {Undefined, Num(0), Num(3)}, pm \in PaymentMethods, isHost \in BOOLEAN,
        ch \in {Undefined, Num(0), Num(7)},
        cb \in {Undefined, Num(11)}, cc \in {Undefined, Num(13)}, cp \in {Undefined, Num(15)},
        hb \in {Undefined, Num(12)}, hc \in {Undefined, Num(14)}, hp \in {Undefined, Num(16)},
        cfg \in {Undefined, Num(10)} }

\* orders, collectives and hosts that differ in what decides the platform
\* fee percent
PlatformFeePercentInputs ==
    { [DefaultFeeIn EXCEPT
          !.data = [NoData EXCEPT !.platformFeePercent = d],
          !.paymentMethod = pm,
          !.collective = [PlainCollective EXCEPT
              !.platformFeePercent = cpf, !.bankTransfersPlatformFeePercent = cb],
          !.host = [NoSettings EXCEPT !.bankTransfersPlatformFeePercent = hb],
          !.config = [DefaultConfig EXCEPT !.platformPercent = cfg]] :
        d \in {Undefined, Num(0), Num(4)}, pm \in PaymentMethods,
        cpf \in {Undefined, Num(0), Num(5)},
        cb \in {Undefined, Num(2)}, hb \in {Undefined, Num(0), Num(6)},
        cfg \in {Undefined, Num(8)} }

\* orders and options that differ in what decides the platform fee
PlatformFeeInputs ==
    { [DefaultFeeIn EXCEPT
          !.totalAmount = amount,
          !.data = [hostFeePercent |-> dh, platformFeePercent |-> dp,
                    platformFee |-> tip, isFeesOnTop |-> onTop],
          !.paymentMethod = pm,
          !.collective = [PlainCollective EXCEPT !.isHostAccount = isHost],
          !.hostFeeSharePercent = share,
          !.hostPlan = [hostFeeSharePercent |-> planShare]] :
        amount \in {1000, 1015}, dh \in {Undefined, Num(0), Num(3)},
        dp \in {Undefined, Num(0), Num(4)}, tip \in {Undefined, Num(0), Num(150)},
        onTop \in BOOLEAN,
        pm \in {[service |-> "stripe", type |-> "creditcard"],
                [service |-> "opencollective", type |-> "manual"]},
        isHost \in BOOLEAN,
        share \in {Undefined, Num(0), Num(15)}, planShare \in {Undefined, Num(0), Num(20)} }

FeeInputs == HostFeeInputs \cup PlatformFeePercentInputs \cup PlatformFeeInputs

NoFeeOut == [fn |-> "none", value |-> Undefined]

GetHostFeePercent ==
    /\ feeOut' = [fn |-> "getHostFeePercent", value |-> getHostFeePercent(feeIn)]
    /\ UNCHANGED <<feeIn, refundVars, orderVars, extraVars>>

GetPlatformFeePercent ==
    /\ feeOut' = [fn |-> "getPlatformFeePercent", value |-> getPlatformFeePercent(feeIn)]
    /\ UNCHANGED <<feeIn, refundVars, orderVars, extraVars>>

\* getHostFee and getPlatformFee compute with the percent: they are applied
\* where the percent is a number
GetHostFee ==
    /\ isNumber(getHostFeePercent(feeIn))
    /\ feeOut' = [fn |-> "getHostFee", value |-> Num(getHostFee(feeIn.totalAmount, feeIn))]
    /\ UNCHANGED <<feeIn, refundVars, orderVars, extraVars>>

GetPlatformFee ==
    /\ isNumber(getHostFeePercent(feeIn))
    /\ isNumber(getPlatformFeePercent(feeIn))
    /\ feeOut' = [fn |-> "getPlatformFee", value |-> Num(getPlatformFee(feeIn.totalAmount, feeIn))]
    /\ UNCHANGED <<feeIn, refundVars, orderVars, extraVars>>

(***************************************************************************)
(* Order accessors for a user (server/models/Order.js)                     *)
(***************************************************************************)
\* user.isAdmin(CollectiveId), after user.populateRoles()
isAdmin(user, CollectiveId) == CollectiveId \in user.adminOf

getPaymentMethodForUser(o, user) ==
    IF isAdmin(user, o.FromCollectiveId)
    THEN o.PaymentMethodId
    ELSE NULL

getSubscriptionForUser_NoAdminCheck(o, user) ==
    IF o.SubscriptionId = NULL
    THEN NULL
    ELSE o.SubscriptionId

getSubscriptionForUser(o, user) ==
    IF o.SubscriptionId = NULL
    THEN NULL
    ELSE IF isAdmin(user, o.FromCollectiveId)
         THEN o.SubscriptionId
         ELSE NULL

AccessCollectives == {Accounts.Contributor, Accounts.Collective, Accounts.Host}
AccessRowIds == {NULL, 1, 2}

AccessInputs ==
    [ user  : [adminOf : SUBSET AccessCollectives],
      order : [ FromCollectiveId : {Accounts.Contributor, Accounts.Collective},
                PaymentMethodId : AccessRowIds,
                SubscriptionId : AccessRowIds ] ]

DefaultAccessIn ==
    [ user  |-> [adminOf |-> {}],
      order |-> [ FromCollectiveId |-> Accounts.Contributor,
                  PaymentMethodId |-> NULL, SubscriptionId |-> NULL ] ]

NoAccessOut == [fn |-> "none", value |-> NULL]

GetPaymentMethodForUser ==
    /\ accessOut' = [ fn |-> "getPaymentMethodForUser",
                      value |-> getPaymentMethodForUser(accessIn.order, accessIn.user) ]
    /\ UNCHANGED <<accessIn, coreVars, mailVars, settleVars>>

GetSubscriptionForUser ==
    /\ accessOut' = [ fn |-> "getSubscriptionForUser",
                      value |-> getSubscriptionForUser(accessIn.order, accessIn.user) ]
    /\ UNCHANGED <<accessIn, coreVars, mailVars, settleVars>>

(***************************************************************************)
(* Mail webhook and approval (controllers/services/email)                  *)
(***************************************************************************)
Watermark == "<!-- OpenCollective.com -->"

\* body.indexOf('<!-- OpenCollective.com -->') !== -1
HasWatermark(body) == \E i \in 1..Len(body) : body[i] = Watermark

\* an address as the parts the regular expressions of getNotificationType match
Address(local, slug, domain) == <<local, "@", slug, domain>>

CollectiveSlug == "webpack"
OpenCollectiveDomain == ".opencollective.com"

NoTokens == [collectiveSlug |-> "undefined", mailinglist |-> "undefined"]

ForwardedLocalParts == {"info", "hello", "members", "admins", "admins"}

getNotificationType(email) ==
    IF email[4] # OpenCollectiveDomain
    THEN NoTokens
    ELSE [ collectiveSlug |-> email[3],
           mailinglist |-> IF email[1] \in ForwardedLocalParts THEN "admins" ELSE email[1] ]

\* models.Notification.getSubscribersUsers / getSubscribersCollectives
getSubscribers(conf, collectiveSlug, mailinglist) ==
    IF conf.exists /\ collectiveSlug = CollectiveSlug /\ mailinglist \in DOMAIN conf.subscribers
    THEN conf.subscribers[mailinglist]
    ELSE {}

\* the html a template renders around the body of the email
Render(template, body) == <<template>> \o body

RECURSIVE Watermarked(_, _)
Watermarked(body, n) == IF n = 0 THEN body ELSE Watermarked(body, n - 1) \o <<Watermark>>

Message(template, to, bcc, body) ==
    [template |-> template, to |-> to, bcc |-> bcc, body |-> body]

\* the orders in which Promise.map may take the recipients
Orders(S) == {f \in [1..Cardinality(S) -> S] : \A i, j \in DOMAIN f : f[i] = f[j] => i = j}

\* the messages sendEmailToList sends, the recipients taken in that order
sendEmailToList_NoWatermark(to, template, body, recipients) ==
    { Message(template, to, recipients[i],
              IF template # "none" THEN Render(template, body) ELSE body) :
        i \in DOMAIN recipients }

sendEmailToList(to, template, body, recipients) ==
    { Message(template, to, recipients[i],
              IF template # "none" THEN Render(template, body) ELSE Watermarked(body, i)) :
        i \in DOMAIN recipients }

ListSubscribers(to) ==
    getSubscribers(mailConf, getNotificationType(to).collectiveSlug,
                   getNotificationType(to).mailinglist)

\* an email as the webhook receives it; forwarded tells a message that
\* sendEmailToList sent without a template and that came back
Email(recipient, body, forwarded) ==
    [recipient |-> recipient, body |-> body, forwarded |-> forwarded]

Respond(handler, email, response) ==
    mailLog' = [handler |-> handler, email |-> email, response |-> response]

webhook(email) ==
    LET nt == getNotificationType(email.recipient) IN
    /\ webhooks < MaxMails
    /\ webhooks' = webhooks + 1
    /\ UNCHANGED <<mailConf, coreVars, accessVars, settleVars>>
    /\ IF nt.collectiveSlug = "undefined"
       THEN /\ Respond("webhook", email, "Invalid recipient, skipping")
            /\ UNCHANGED <<held, sent>>
       ELSE IF HasWatermark(email.body)
       THEN /\ Respond("webhook", email, "Email already processed, skipping")
            /\ UNCHANGED <<held, sent>>
       ELSE IF nt.mailinglist = "admins"
       THEN /\ UNCHANGED held
            /\ IF ~mailConf.exists
               THEN /\ Respond("webhook", email, "This Collective doesn't exist")
                    /\ UNCHANGED sent
               ELSE IF ~mailConf.forwardEmails \/ ~mailConf.canContact
               THEN /\ Respond("webhook", email, "This Collective can't be emailed directly")
                    /\ UNCHANGED sent
               ELSE IF ListSubscribers(email.recipient) = {}
               THEN /\ Respond("webhook", email, "Unexpected error")
                    /\ UNCHANGED sent
               ELSE /\ Respond("webhook", email, "ok")
                    /\ \E recipients \in Orders(ListSubscribers(email.recipient)) :
                          sent' = sent \cup sendEmailToList(email.recipient, "none",
                                                            email.body, recipients)
       ELSE IF ~mailConf.exists
       THEN /\ Respond("webhook", email, "There is no collective with slug")
            /\ UNCHANGED <<held, sent>>
       ELSE IF getSubscribers(mailConf, nt.collectiveSlug, nt.mailinglist) = {}
       THEN /\ Respond("webhook", email, "There is no user subscribed")
            /\ UNCHANGED <<held, sent>>
       ELSE IF mailConf.admins = {}
       THEN /\ Respond("webhook", email, "There is no admins to approve emails")
            /\ UNCHANGED <<held, sent>>
       ELSE /\ Respond("webhook", email, "Mailgun webhook processed successfully")
            /\ held' = held \cup {email}
            /\ sent' = sent \cup
                  { Message("email.approve",
                            Address("admins", nt.collectiveSlug, OpenCollectiveDomain),
                            admin, Render("email.approve", email.body)) :
                      admin \in mailConf.admins }

\* approve of a message the mail server holds
approve(email) ==
    /\ email \in held
    /\ UNCHANGED <<mailConf, held, webhooks, coreVars, accessVars, settleVars>>
    /\ IF ListSubscribers(email.recipient) = {}
       THEN /\ Respond("approve", email, "Unexpected error")
            /\ UNCHANGED sent
       ELSE /\ Respond("approve", email, "approved")
            /\ \E recipients \in Orders(ListSubscribers(email.recipient)) :
                  sent' = sent \cup sendEmailToList(email.recipient, "email.message",
                                                    email.body, recipients)

\* approve of a messageId the mail server does not know
approveNotFound ==
    /\ Respond("approve", Email(<<>>, <<>>, FALSE), "Message not found")
    /\ UNCHANGED <<mailConf, held, sent, webhooks, coreVars, accessVars, settleVars>>

LocalParts == {"info", "hello", "members", "admins", "organizers", "backers"}

\* the emails that reach the webhook from outside
ExternalEmails ==
    { Email(recipient, body, FALSE) :
        recipient \in { Address(local, CollectiveSlug, OpenCollectiveDomain) :
                          local \in LocalParts }
                      \cup {Address("info", "example", ".com")},
        body \in {<<"text">>, <<"text", Watermark>>} }

\* a message sent to a list address comes back to the webhook
ReceivedAgain(m) == Email(m.to, m.body, m.template = "none")

MailConfs ==
    { [ exists |-> e, forwardEmails |-> f, canContact |-> c,
        subscribers |-> [admins |-> a, organizers |-> o, backers |-> o],
        admins |-> ad ] :
        e \in BOOLEAN, f \in BOOLEAN, c \in BOOLEAN,
        a \in {{}, {"ann", "bob"}}, o \in {{}, {"sam"}}, ad \in {{}, {"ann", "bob"}} }

DefaultMailConf ==
    [ exists |-> TRUE, forwardEmails |-> TRUE, canContact |-> TRUE,
      subscribers |-> [admins |-> {}, organizers |-> {}, backers |-> {}],
      admins |-> {} ]

NoMailLog ==
    [ handler |-> "none",
      email |-> Email(Address("info", "example", ".com"), <<"text">>, FALSE),
      response |-> "none" ]

(***************************************************************************)
(* Settlement of a host's debts (lib/invoice-platform-fees)                *)
(***************************************************************************)
RECURSIVE sumBy(_)
\* sumBy(rows, 'amount')
sumBy(rows) ==
    IF rows = {} THEN 0
    ELSE LET r == CHOOSE x \in rows : TRUE IN r.amount + sumBy(rows \ {r})

SharedRevenue == "Shared Revenue"
Reimbursement == "Reimburse: Payment Processor Fee for collected Platform Tips"
FixedFee == "Fixed Fee per Hosted Collective"

\* lines 817-823: the amount of a Shared Revenue transaction becomes the
\* platform's share of it
ShareOf(t, hostFeeSharePercent) ==
    IF t.source = SharedRevenue
    THEN [t EXCEPT !.amount =
             RoundDiv(t.amount * OrElse(t.hostFeeSharePercent, Num(hostFeeSharePercent)).v, 100)]
    ELSE t

\* lines 825-842: one item for each source, and the fixed fee
SettlementItems(in) ==
    LET transactions == {ShareOf(t, in.plan.hostFeeSharePercent) : t \in in.hostTransactions}
        sources == {t.source : t \in transactions}
        fee == in.hostedCollectivesCount * in.plan.pricePerCollective
    IN  { [description |-> src, amount |-> sumBy({t \in transactions : t.source = src})] :
            src \in sources }
        \cup (IF in.plan.pricePerCollective # 0 /\ fee # 0
              THEN {[description |-> FixedFee, amount |-> fee]}
              ELSE {})

totalAmountCredited_AllItems(items) == sumBy(items)

totalAmountCredited(items) ==
    sumBy({i \in items : /\ i.description # SharedRevenue
                         /\ i.description # Reimbursement
                         /\ i.description # FixedFee})

totalAmountCharged(items) == sumBy(items)

\* lines 903-918: the payout method of the settlement expense
SelectPayoutMethod(in) ==
    LET first == IF "OTHER" \in in.payoutMethods THEN "OTHER"
                 ELSE IF "BANK_ACCOUNT" \in in.payoutMethods THEN "BANK_ACCOUNT"
                 ELSE "undefined"
    IN  IF "transferwise" \in in.connectedAccounts /\ "BANK_ACCOUNT" \in in.payoutMethods
        THEN "BANK_ACCOUNT"
        ELSE IF /\ "paypal" \in in.connectedAccounts
                /\ ~in.disablePaypalPayouts
                /\ "PAYPAL" \in in.payoutMethods
        THEN "PAYPAL"
        ELSE first

IdleSettleCall == [pc |-> "idle", items |-> {}, outcome |-> "none"]

EmptySettleDb == [transactions |-> {}, expenses |-> {}, expenseItems |-> {}, attachedFiles |-> {}]

EndSettle(outcome) == settleCall' = [settleCall EXCEPT !.pc = "done", !.outcome = outcome]

\* lines 808-874
settleDebtsLegacy ==
    LET items == SettlementItems(settleIn) IN
    /\ settleCall.pc = "idle"
    /\ settleCall' =
          IF totalAmountCharged(items) < 1000
          THEN [pc |-> "done", items |-> items, outcome |-> "skipped"]
          ELSE IF settleIn.chargedHostId = NULL
          THEN [pc |-> "done", items |-> items, outcome |-> "ignored"]
          ELSE [pc |-> "credit", items |-> items, outcome |-> "none"]
    /\ UNCHANGED <<settleIn, settleDb, coreVars, accessVars, mailVars>>

\* lines 876-897
SettleCreditHost ==
    /\ settleCall.pc = "credit"
    /\ settleDb' =
          IF totalAmountCredited(settleCall.items) > 0
          THEN [settleDb EXCEPT !.transactions =
                   @ \cup {[ type |-> "CREDIT", kind |-> "NONE",
                             amount |-> totalAmountCredited(settleCall.items),
                             CollectiveId |-> settleIn.chargedHostId ]}]
          ELSE settleDb
    /\ settleCall' = [settleCall EXCEPT !.pc = "expense"]
    /\ UNCHANGED <<settleIn, coreVars, accessVars, mailVars>>

\* lines 899-933; PayoutMethod.id throws when no payout method was selected
SettleCreateExpense ==
    /\ settleCall.pc = "expense"
    /\ IF SelectPayoutMethod(settleIn) = "undefined"
       THEN /\ EndSettle("TypeError")
            /\ UNCHANGED settleDb
       ELSE \/ /\ settleDb' = [settleDb EXCEPT !.expenses =
                     @ \cup {[ id |-> 1, PayoutMethod |-> SelectPayoutMethod(settleIn),
                               amount |-> totalAmountCharged(settleCall.items),
                               CollectiveId |-> settleIn.chargedHostId ]}]
               /\ settleCall' = [settleCall EXCEPT !.pc = "items"]
            \/ /\ EndSettle("Expense.create failed")
               /\ UNCHANGED settleDb
    /\ UNCHANGED <<settleIn, coreVars, accessVars, mailVars>>

\* lines 935-941
SettleCreateItems ==
    /\ settleCall.pc = "items"
    /\ \/ /\ settleDb' = [settleDb EXCEPT !.expenseItems =
                @ \cup {[ExpenseId |-> 1, description |-> i.description, amount |-> i.amount] :
                          i \in settleCall.items}]
          /\ settleCall' = [settleCall EXCEPT !.pc = "upload"]
       \/ /\ EndSettle("ExpenseItem.bulkCreate failed")
          /\ UNCHANGED settleDb
    /\ UNCHANGED <<settleIn, coreVars, accessVars, mailVars>>

\* lines 943-958
SettleAttachCsv ==
    /\ settleCall.pc = "upload"
    /\ \/ /\ settleDb' = [settleDb EXCEPT !.attachedFiles = @ \cup {[ExpenseId |-> 1]}]
          /\ EndSettle("settled")
       \/ /\ EndSettle("uploadToS3 failed")
          /\ UNCHANGED settleDb
    /\ UNCHANGED <<settleIn, coreVars, accessVars, mailVars>>

\* the transactions pending for a host, by the source of the query
PendingTransactions ==
    { [TransactionId |-> 1, source |-> "Platform Tips", amount |-> 600, hostFeeSharePercent |-> Undefined],
      [TransactionId |-> 2, source |-> "Platform Tips", amount |-> 500, hostFeeSharePercent |-> Undefined],
      [TransactionId |-> 3, source |-> SharedRevenue, amount |-> 8000, hostFeeSharePercent |-> Undefined],
      [TransactionId |-> 4, source |-> SharedRevenue, amount |-> 1010, hostFeeSharePercent |-> Num(50)],
      [TransactionId |-> 5, source |-> Reimbursement, amount |-> -150, hostFeeSharePercent |-> Undefined] }

SettleInputs ==
    [ hostTransactions : SUBSET PendingTransactions,
      plan : [hostFeeSharePercent : {15}, pricePerCollective : {0, 100}],
      hostedCollectivesCount : {0, 3},
      chargedHostId : {NULL, Accounts.Host},
      payoutMethods : SUBSET {"OTHER", "BANK_ACCOUNT", "PAYPAL"},
      connectedAccounts : {{}, {"transferwise"}, {"paypal"}},
      disablePaypalPayouts : BOOLEAN ]

DefaultSettleIn ==
    [ hostTransactions |-> {},
      plan |-> [hostFeeSharePercent |-> 15, pricePerCollective |-> 0],
      hostedCollectivesCount |-> 0,
      chargedHostId |-> NULL,
      payoutMethods |-> {},
      connectedAccounts |-> {},
      disablePaypalPayouts |-> FALSE ]

(***************************************************************************)
(* Specifications                                                          *)
(***************************************************************************)
DefaultLedger == ContributionLedger(ContributionPayload(-10, -5, -3, FALSE))

DefaultOrder ==
    [ id |-> 1, interval |-> "null", totalAmount |-> Num(500), status |-> "NEW",
      processedAt |-> NULL, SubscriptionId |-> NULL, waitToCharge |-> FALSE, paid |-> FALSE,
      savePaymentMethod |-> FALSE, paymentMethodSaved |-> FALSE ]

InitCore(ledgers, orders, feeInputs) ==
    /\ txs \in ledgers
    /\ refundCalls = [c \in RefundCallIds |-> IdleRefundCall]
    /\ order \in orders
    /\ subs = <<>>
    /\ execCalls = [c \in ExecCallIds |-> IdleExecCall]
    /\ provider = [calls |-> 0, transactions |-> 0]
    /\ emails = {}
    /\ feeIn \in feeInputs
    /\ feeOut = NoFeeOut

InitAccessWith(inputs) ==
    /\ accessIn \in inputs
    /\ accessOut = NoAccessOut

InitMailWith(confs) ==
    /\ mailConf \in confs
    /\ held = {}
    /\ sent = {}
    /\ webhooks = 0
    /\ mailLog = NoMailLog

InitSettleWith(inputs) ==
    /\ settleIn \in inputs
    /\ settleCall = IdleSettleCall
    /\ settleDb = EmptySettleDb

InitWith(ledgers, orders, feeInputs) ==
    /\ InitCore(ledgers, orders, feeInputs)
    /\ InitAccessWith({DefaultAccessIn})
    /\ InitMailWith({DefaultMailConf})
    /\ InitSettleWith({DefaultSettleIn})

NextRefund ==
    \/ \E c \in RefundCallIds, id \in RowIds(txs), fee \in RefundedFees :
          createRefundTransaction(c, id, fee)
    \/ \E c \in RefundCallIds : RefundPlatformTip(c)
    \/ \E c \in RefundCallIds : RefundCreateDoubleEntry(c)
    \/ \E c \in RefundCallIds : RefundAssociate(c)

NextRefundInterleaved ==
    \/ \E c \in InterleavedCallIds, id \in RowIds(txs), fee \in RefundedFees :
          createRefundTransactionInterleaved(c, id, fee)
    \/ \E c \in RefundCallIds : RefundPlatformTip(c)
    \/ \E c \in RefundCallIds : RefundCreateDoubleEntry(c)
    \/ \E c \in RefundCallIds : RefundAssociate(c)

NextOrder ==
    \/ \E c \in ExecCallIds, userIsUser \in BOOLEAN, orderIsOrder \in BOOLEAN :
          executeOrder(c, userIsUser, orderIsOrder)
    \/ \E c \in ExecCallIds : ExecValidatePlanRequest(c)
    \/ \E c \in ExecCallIds : ExecProcessOrder(c)
    \/ \E c \in ExecCallIds : ExecMarkPaid(c)
    \/ \E c \in ExecCallIds : ExecRegisterBacker(c)
    \/ \E c \in ExecCallIds : ExecNotify(c)
    \/ \E c \in ExecCallIds : ExecCreateSubscription(c)
    \/ \E c \in ExecCallIds : ExecActivateOrder(c)

NextOrderInterleaved ==
    \/ \E c \in InterleavedCallIds, userIsUser \in BOOLEAN, orderIsOrder \in BOOLEAN :
          executeOrderInterleaved(c, userIsUser, orderIsOrder)
    \/ \E c \in ExecCallIds : ExecValidatePlanRequest(c)
    \/ \E c \in ExecCallIds : ExecProcessOrder(c)
    \/ \E c \in ExecCallIds : ExecMarkPaid(c)
    \/ \E c \in ExecCallIds : ExecRegisterBacker(c)
    \/ \E c \in ExecCallIds : ExecNotify(c)
    \/ \E c \in ExecCallIds : ExecCreateSubscription(c)
    \/ \E c \in ExecCallIds : ExecActivateOrder(c)

NextFees ==
    \/ GetHostFeePercent
    \/ GetPlatformFeePercent
    \/ GetHostFee
    \/ GetPlatformFee

NextAccess ==
    \/ GetPaymentMethodForUser
    \/ GetSubscriptionForUser

NextSettle ==
    \/ settleDebtsLegacy
    \/ SettleCreditHost
    \/ SettleCreateExpense
    \/ SettleCreateItems
    \/ SettleAttachCsv

NextMail ==
    \/ \E email \in ExternalEmails : webhook(email)
    \/ \E m \in sent : webhook(ReceivedAgain(m))
    \/ \E email \in held : approve(email)
    \/ approveNotFound

\* refunds on every ledger
InitRefund == InitWith(InitialLedgers, {DefaultOrder}, {DefaultFeeIn})
SpecRefund == InitRefund /\ [][NextRefund]_vars

\* refunds of contributions by calls that interleave
ContributionLedgers ==
    {l \in InitialLedgers : \A i \in RowIds(l) : l[i].kind \in {"CONTRIBUTION", "PLATFORM_TIP"}}
InitRefundInterleaved == InitWith(ContributionLedgers, {DefaultOrder}, {DefaultFeeIn})
SpecRefundInterleaved == InitRefundInterleaved /\ [][NextRefundInterleaved]_vars

\* executeOrder on every order
InitOrder == InitWith({DefaultLedger}, InitialOrders, {DefaultFeeIn})
SpecOrder == InitOrder /\ [][NextOrder]_vars

\* executeOrder by calls that interleave
SpecOrderInterleaved == InitOrder /\ [][NextOrderInterleaved]_vars

\* the fee functions on every input
InitFees == InitWith({DefaultLedger}, {DefaultOrder}, FeeInputs)
SpecFees == InitFees /\ [][NextFees]_vars

\* the Order accessors on every user and order
InitAccess ==
    /\ InitCore({DefaultLedger}, {DefaultOrder}, {DefaultFeeIn})
    /\ InitAccessWith(AccessInputs)
    /\ InitMailWith({DefaultMailConf})
    /\ InitSettleWith({DefaultSettleIn})
SpecAccess == InitAccess /\ [][NextAccess]_vars

\* the mail webhook and approvals on every collective
InitMail ==
    /\ InitCore({DefaultLedger}, {DefaultOrder}, {DefaultFeeIn})
    /\ InitAccessWith({DefaultAccessIn})
    /\ InitMailWith(MailConfs)
    /\ InitSettleWith({DefaultSettleIn})
SpecMail == InitMail /\ [][NextMail]_vars

\* settleDebtsLegacy on every host
InitSettle ==
    /\ InitCore({DefaultLedger}, {DefaultOrder}, {DefaultFeeIn})
    /\ InitAccessWith({DefaultAccessIn})
    /\ InitMailWith({DefaultMailConf})
    /\ InitSettleWith(SettleInputs)
SpecSettle == InitSettle /\ [][NextSettle]_vars

Init == InitWith({DefaultLedger}, {DefaultOrder}, {DefaultFeeIn})
Next == NextRefund \/ NextOrder \/ NextFees \/ NextAccess \/ NextMail \/ NextSettle
Spec == Init /\ [][Next]_vars

(***************************************************************************)
(* Properties of createRefundTransaction                                   *)
(***************************************************************************)
GroupOf(id) == txs[id].TransactionGroup

RefundCallStarted(c) == refundCalls[c].pc # "idle"

\* the CREDIT transaction of a contribution group carries a refund id
CreditOfGroupRefunded(g) ==
    \E i \in RowIds(txs) :
        /\ txs[i].TransactionGroup = g
        /\ txs[i].type = "CREDIT"
        /\ txs[i].kind # "PLATFORM_TIP"
        /\ txs[i].RefundTransactionId # NULL

AtMostOneCallRefundsAGroup ==
    \A c, d \in RefundCallIds :
        (/\ c # d
         /\ RefundCallStarted(c)
         /\ RefundCallStarted(d)
         /\ GroupOf(refundCalls[c].txId) = GroupOf(refundCalls[d].txId))
        => ~(refundCalls[c].created # {} /\ refundCalls[d].created # {})

LaterRefundCallThrows ==
    \A c \in RefundCallIds :
        (/\ refundCalls[c].pc = "idle"
         /\ refundCalls'[c].pc # "idle"
         /\ CreditOfGroupRefunded(GroupOf(refundCalls'[c].txId)))
        => /\ refundCalls'[c].pc = "done"
           /\ refundCalls'[c].outcome = "AlreadyRefunded"
           /\ txs' = txs

\* C1: over calls of createRefundTransaction made one after another on
\* transactions of one TransactionGroup, at most one call creates refund
\* transactions, and once the CREDIT transaction of the group has a
\* RefundTransactionId every later call throws 'This transaction has already
\* been refunded' and leaves the table as it was.
C1_RefundedOnce == [](AtMostOneCallRefundsAGroup) /\ [][LaterRefundCallThrows]_vars

\* the fees of a refund row against those of the transaction it refunds
RefundFeesMatch(refund, original, refundedPaymentProcessorFee) ==
    /\ refundedPaymentProcessorFee = 0 =>
          /\ refund.paymentProcessorFeeInHostCurrency = 0
          /\ refund.hostFeeInHostCurrency =
                -original.hostFeeInHostCurrency - original.paymentProcessorFeeInHostCurrency
    /\ refundedPaymentProcessorFee # 0 =>
          /\ refund.hostFeeInHostCurrency = -original.hostFeeInHostCurrency
          /\ refund.platformFeeInHostCurrency = -original.platformFeeInHostCurrency
          /\ refund.paymentProcessorFeeInHostCurrency = -original.paymentProcessorFeeInHostCurrency
    /\ refund.hostFeeInHostCurrency + refund.platformFeeInHostCurrency
           + refund.paymentProcessorFeeInHostCurrency
         = -(original.hostFeeInHostCurrency + original.platformFeeInHostCurrency
               + original.paymentProcessorFeeInHostCurrency)

\* C3: the refund row of a transaction has, when refundedPaymentProcessorFee
\* is 0, a payment processor fee of 0 and a host fee of minus the original
\* host fee minus the original processor fee; otherwise its three fees are
\* the negated original fees; either way the three refund fees sum to the
\* negated sum of the original fees.
C3_RefundFees ==
    \A c \in RefundCallIds :
        /\ refundCalls[c].refundId # NULL =>
              RefundFeesMatch(txs[refundCalls[c].refundId], txs[refundCalls[c].creditId],
                              refundCalls[c].fee)
        /\ refundCalls[c].tipRefundId # NULL =>
              RefundFeesMatch(txs[refundCalls[c].tipRefundId], txs[refundCalls[c].tipId],
                              refundCalls[c].fee)

\* a refund whose processor fee was not refunded and is borne by the host
C3_Witness ==
    \E c \in RefundCallIds :
        /\ refundCalls[c].outcome = "Refunded"
        /\ refundCalls[c].fee = 0
        /\ txs[refundCalls[c].creditId].paymentProcessorFeeInHostCurrency = -3
        /\ txs[refundCalls[c].creditId].hostFeeInHostCurrency = -10
        /\ txs[refundCalls[c].refundId].hostFeeInHostCurrency = 13
        /\ txs[refundCalls[c].refundId].paymentProcessorFeeInHostCurrency = 0

\* C4: a call handed a transaction that is not the CREDIT one builds the
\* refund from the CREDIT transaction of the same double entry of the
\* TransactionGroup, whatever else the group holds, and throws 'Cannot find
\* any CREDIT transaction to refund' when the group holds no other row.
C4_RefundBuiltFromCredit ==
    \A c \in RefundCallIds :
        (RefundCallStarted(c) /\ txs[refundCalls[c].txId].type # "CREDIT")
        => IF FindOneCandidates(txs, refundCalls[c].txId) = {}
           THEN refundCalls[c].outcome = "CannotFindCredit"
           ELSE /\ refundCalls[c].creditId # NULL
                /\ txs[refundCalls[c].creditId].type = "CREDIT"
                /\ txs[refundCalls[c].creditId].kind = txs[refundCalls[c].txId].kind
                /\ GroupOf(refundCalls[c].creditId) = GroupOf(refundCalls[c].txId)

(***************************************************************************)
(* Properties of executeOrder                                              *)
(***************************************************************************)
AlreadyProcessed == "This order has already been processed"

\* the step that starts the c-th call of executeOrder
ExecStarts(c) == execCalls[c].pc = "idle" /\ execCalls'[c].pc # "idle"

ProcessedOrderIsRejected ==
    \A c \in ExecCallIds :
        (ExecStarts(c) /\ order.processedAt # NULL)
        => /\ execCalls'[c].pc = "done"
           /\ execCalls'[c].result = "rejected"
           /\ (execCalls'[c].userIsUser /\ execCalls'[c].orderIsOrder)
                 => execCalls'[c].error = AlreadyProcessed
           /\ provider' = provider
           /\ order' = order

\* C2: executeOrder on an order whose processedAt is set rejects with 'This
\* order has already been processed' without calling the payment provider,
\* and over calls made one after another on one order the provider returns a
\* transaction at most once.
C2_ProcessedOnce == [](provider.transactions <= 1) /\ [][ProcessedOrderIsRejected]_vars

\* a second call was rejected because the first one had processed the order
C2_Witness ==
    /\ provider.transactions = 1
    /\ \E c \in ExecCallIds : execCalls[c].error = AlreadyProcessed

WaitsToCharge == order.waitToCharge /\ ~order.paid

NothingChargedWhileWaiting ==
    WaitsToCharge =>
        /\ provider.calls = 0
        /\ \A c \in ExecCallIds : ~execCalls[c].transaction
        /\ order.processedAt = NULL
        /\ order.SubscriptionId = NULL
        /\ subs = <<>>
        /\ \A m \in emails :
              /\ m[2] \in {"order.processing", "order.new.pendingFinancialContribution"}
              /\ order.status = "PENDING"

OrderUntouchedWhileWaiting ==
    WaitsToCharge => /\ order'.status = order.status
                     /\ order'.processedAt = order.processedAt

\* C5: when the provider has features.waitToCharge and the payment method is
\* not paid, the provider's processOrder is not called and no transaction is
\* returned; executeOrder then leaves status and processedAt of the order
\* unchanged, creates no subscription, and sends the 'order.processing' email
\* and the pending notification of the host admins only if the order is
\* PENDING.
C5_WaitToCharge == [](NothingChargedWhileWaiting) /\ [][OrderUntouchedWhileWaiting]_vars

\* a resolved call on a PENDING order that waits for its charge, both
\* notifications sent
C5_Witness ==
    /\ WaitsToCharge
    /\ order.status = "PENDING"
    /\ \E c \in ExecCallIds :
          /\ execCalls[c].result = "resolved"
          /\ <<c, "order.processing">> \in emails
          /\ <<c, "order.new.pendingFinancialContribution">> \in emails

CompletedWithTransaction(c) == execCalls[c].result = "resolved" /\ execCalls[c].transaction

OrderAfterCharge ==
    \A c \in ExecCallIds :
        CompletedWithTransaction(c) =>
            /\ order.processedAt # NULL
            /\ order.interval = "null" => order.status = "PAID" /\ order.SubscriptionId = NULL
            /\ order.interval \in {"month", "year"} =>
                  /\ order.status = "ACTIVE"
                  /\ order.SubscriptionId # NULL
                  /\ order.SubscriptionId = execCalls[c].subscriptionId
                  /\ order.SubscriptionId \in 1..Len(subs)
                  /\ subs[order.SubscriptionId].isActive
                  /\ subs[order.SubscriptionId].chargeNumber = 1
                  /\ subs[order.SubscriptionId].amount = order.totalAmount

NoSubscriptionWithoutTransaction ==
    /\ Len(subs) <= provider.transactions
    /\ \A c \in ExecCallIds : execCalls[c].subscriptionId # NULL => execCalls[c].transaction

PaidBeforeActive ==
    /\ (order'.status = "ACTIVE" /\ order.status # "ACTIVE") =>
          /\ order.status = "PAID"
          /\ order.processedAt # NULL
    /\ Len(subs') > Len(subs) => order.status = "PAID"

\* C6: after executeOrder completes with a transaction from the provider the
\* order has processedAt set and is PAID when its interval is null, ACTIVE
\* with SubscriptionId naming a newly created, activated subscription of
\* chargeNumber 1 and amount totalAmount when its interval is month or year;
\* PAID is written before ACTIVE, and no subscription is created without a
\* transaction.
C6_OrderAfterCharge ==
    [](OrderAfterCharge /\ NoSubscriptionWithoutTransaction) /\ [][PaidBeforeActive]_vars

\* a monthly order charged, subscribed and activated
C6_Witness ==
    /\ order.interval = "month"
    /\ order.status = "ACTIVE"
    /\ \E c \in ExecCallIds :
          /\ CompletedWithTransaction(c)
          /\ subs[execCalls[c].subscriptionId].chargeNumber = 1

InvalidCallIsRejected ==
    \A c \in ExecCallIds :
        LET call == execCalls'[c]
            badInterval == order.interval \notin {"null", "month", "year"}
            noAmount == ~Truthy(order.totalAmount)
            reachesValidation == call.userIsUser /\ call.orderIsOrder /\ order.processedAt = NULL
        IN  (ExecStarts(c) /\ (~call.userIsUser \/ ~call.orderIsOrder \/ badInterval \/ noAmount))
            => /\ call.pc = "done"
               /\ call.result = "rejected"
               /\ provider' = provider
               /\ order' = order
               /\ subs' = subs
               /\ ~call.userIsUser =>
                     call.error = "user should be an instance of the User model"
               /\ (call.userIsUser /\ ~call.orderIsOrder) =>
                     call.error = "order should be an instance of the Order model"
               /\ (reachesValidation /\ badInterval) =>
                     call.error = "Interval should be null, month or year."
               /\ (reachesValidation /\ ~badInterval /\ noAmount) =>
                     call.error = "payment.amount missing"

\* C7: executeOrder rejects, without calling the payment provider and without
\* changing the order, when user is not a User, when order is not an Order,
\* when the interval is set to something other than month or year ('Interval
\* should be null, month or year.') and when totalAmount is missing or 0
\* ('payment.amount missing').
C7_InvalidCallRejected == [][InvalidCallIsRejected]_vars

\* a call rejected for its amount and nothing charged
C7_Witness ==
    /\ ~Truthy(order.totalAmount)
    /\ provider.calls = 0
    /\ \E c \in ExecCallIds : execCalls[c].error = "payment.amount missing"

(***************************************************************************)
(* Properties of the fee functions                                         *)
(***************************************************************************)
\* the first element of a list that is a number, undefined when there is none
FirstNumberOf(list) ==
    LET numbers == {i \in DOMAIN list : list[i].t = "number"}
    IN  IF numbers = {} THEN Undefined
        ELSE list[CHOOSE i \in numbers : \A j \in numbers : i <= j]

\* the values the host fee percent is looked up in, by payment method
HostFeeCascade ==
    LET pm == feeIn.paymentMethod
        c == feeIn.collective
        h == feeIn.host
        byMethod ==
            CASE pm.service = "opencollective" /\ pm.type = "manual" ->
                    <<c.bankTransfersHostFeePercent, h.bankTransfersHostFeePercent>>
              [] pm.service = "opencollective" /\ pm.type = "collective" -> <<Num(0)>>
              [] pm.service = "opencollective" /\ pm.type = "host" -> <<Num(0)>>
              [] pm.service = "stripe" ->
                    <<c.creditCardHostFeePercent, h.creditCardHostFeePercent>>
              [] pm.service = "paypal" ->
                    <<c.paypalHostFeePercent, h.paypalHostFeePercent>>
              [] OTHER -> <<>>
    IN  <<feeIn.data.hostFeePercent>> \o byMethod \o <<c.hostFeePercent, feeIn.config.hostPercent>>

\* C8: getHostFeePercent returns 0 whenever the collective is a host account,
\* whatever the order, the collective or the host set; otherwise it returns
\* the first number among order.data.hostFeePercent, the settings of the
\* payment method (bank transfer, credit card, paypal: the collective's, then
\* the host's; 0 for opencollective collective and host), the collective's
\* hostFeePercent and config.fees.default.hostPercent.
C8_HostFeePercent ==
    feeOut.fn = "getHostFeePercent" =>
        feeOut.value = IF feeIn.collective.isHostAccount THEN Num(0)
                       ELSE FirstNumberOf(HostFeeCascade)

\* a host account whose order fixes a host fee percent is still charged 0
C8_Witness ==
    /\ feeOut.fn = "getHostFeePercent"
    /\ feeIn.collective.isHostAccount
    /\ feeIn.data.hostFeePercent = Num(3)
    /\ feeOut.value = Num(0)

\* the values the platform fee percent is looked up in, by payment method
PlatformFeeCascade ==
    LET pm == feeIn.paymentMethod
        c == feeIn.collective
        byMethod ==
            CASE pm.service = "opencollective" /\ pm.type = "manual" ->
                    <<c.bankTransfersPlatformFeePercent,
                      feeIn.host.bankTransfersPlatformFeePercent, Num(0)>>
              [] pm.service = "opencollective" /\ pm.type \in {"collective", "host"} -> <<Num(0)>>
              [] OTHER -> <<>>
    IN  <<feeIn.data.platformFeePercent>> \o byMethod
          \o <<c.platformFeePercent, feeIn.config.platformPercent>>

NoPlatformFeeOverride ==
    /\ ~isNumber(feeIn.data.platformFeePercent)
    /\ ~isNumber(feeIn.collective.bankTransfersPlatformFeePercent)
    /\ ~isNumber(feeIn.host.bankTransfersPlatformFeePercent)

\* C9: getPlatformFeePercent returns the first number among
\* order.data.platformFeePercent, for bank transfers the collective's and the
\* host's bankTransfersPlatformFeePercent and then 0, for opencollective
\* collective and host payment methods 0, the collective's platformFeePercent
\* and config.fees.default.platformPercent; so without an override of the
\* order or of bank transfers those three payment methods pay 0 whatever the
\* collective's platformFeePercent.
C9_PlatformFeePercent ==
    feeOut.fn = "getPlatformFeePercent" =>
        /\ feeOut.value = FirstNumberOf(PlatformFeeCascade)
        /\ (/\ feeIn.paymentMethod.service = "opencollective"
            /\ feeIn.paymentMethod.type \in {"manual", "collective", "host"}
            /\ NoPlatformFeeOverride) => feeOut.value = Num(0)

\* a bank transfer to a collective with a platform fee percent of 5 pays 0
C9_Witness ==
    /\ feeOut.fn = "getPlatformFeePercent"
    /\ feeIn.paymentMethod = [service |-> "opencollective", type |-> "manual"]
    /\ NoPlatformFeeOverride
    /\ feeIn.collective.platformFeePercent = Num(5)
    /\ feeOut.value = Num(0)

\* n / d rounded to the nearest integer, halves up: the r with
\* r - 1/2 <= n/d < r + 1/2
Rounded(n, d) ==
    CHOOSE r \in -1..(n + 1) : d * (2 * r - 1) <= 2 * n /\ 2 * n < d * (2 * r + 1)

\* C10: getPlatformFee returns (order.data.platformFee or 0) plus the shared
\* revenue, round(getHostFee(totalAmount) * percent / 100) with percent the
\* hostFeeSharePercent option or else the plan's, 0 when no percent applies,
\* whenever the order is fees-on-top or the percent is non-zero; only
\* otherwise round(totalAmount * getPlatformFeePercent / 100).
C10_PlatformFee ==
    feeOut.fn = "getPlatformFee" =>
        LET option == feeIn.hostFeeSharePercent
            plan == feeIn.hostPlan.hostFeeSharePercent
            percent == IF option.t = "number" /\ option.v # 0 THEN option.v
                       ELSE IF plan.t = "number" THEN plan.v ELSE 0
            tip == IF feeIn.data.platformFee.t = "number" THEN feeIn.data.platformFee.v ELSE 0
            hostFee == getHostFee(feeIn.totalAmount, feeIn)
        IN  feeOut.value =
               IF feeIn.data.isFeesOnTop \/ percent # 0
               THEN Num(tip + (IF percent # 0 THEN Rounded(hostFee * percent, 100) ELSE 0))
               ELSE Num(Rounded(feeIn.totalAmount * getPlatformFeePercent(feeIn).v, 100))

\* a fees-on-top order of a host that shares revenue pays the tip and the share
C10_Witness ==
    /\ feeOut.fn = "getPlatformFee"
    /\ feeIn.data.isFeesOnTop
    /\ feeIn.data.platformFee = Num(150)
    /\ feeIn.hostFeeSharePercent = Num(15)
    /\ feeIn.totalAmount = 1015
    /\ ~feeIn.collective.isHostAccount
    /\ feeIn.data.hostFeePercent = Undefined
    /\ feeOut.value = Num(163)

(***************************************************************************)
(* Properties of the Order accessors                                       *)
(***************************************************************************)
AccessorReturned(fn) == accessOut.fn = fn

AdminOfFromCollective == accessIn.order.FromCollectiveId \in accessIn.user.adminOf

PaymentMethodOnlyForAdmin ==
    AccessorReturned("getPaymentMethodForUser") =>
        accessOut.value = IF AdminOfFromCollective
                          THEN accessIn.order.PaymentMethodId
                          ELSE NULL

SubscriptionOnlyForAdmin ==
    AccessorReturned("getSubscriptionForUser") =>
        accessOut.value = IF AdminOfFromCollective /\ accessIn.order.SubscriptionId # NULL
                          THEN accessIn.order.SubscriptionId
                          ELSE NULL

\* C11: getPaymentMethodForUser and getSubscriptionForUser return the order's
\* payment method or subscription only to a user who is admin of the order's
\* FromCollectiveId and null to every other user, and getSubscriptionForUser
\* returns null for every user when the order has no SubscriptionId.
C11_AccessorsOnlyForAdmin == PaymentMethodOnlyForAdmin /\ SubscriptionOnlyForAdmin

\* a user who is admin of other collectives only asks for the subscription of
\* an order that has one, and gets null
C11_Witness ==
    /\ AccessorReturned("getSubscriptionForUser")
    /\ accessIn.user.adminOf # {}
    /\ ~AdminOfFromCollective
    /\ accessIn.order.SubscriptionId # NULL
    /\ accessOut.value = NULL

(***************************************************************************)
(* Properties of the mail webhook                                          *)
(***************************************************************************)
WebhookHandles(email) ==
    /\ webhooks' = webhooks + 1
    /\ mailLog'.email = email
    /\ email.recipient[4] = OpenCollectiveDomain
    /\ ~HasWatermark(email.body)

NewlySent == sent' \ sent

DirectLocalParts == {"info", "hello", "members", "admins", "organizers"}

CanBeEmailedDirectly == mailConf.exists /\ mailConf.forwardEmails /\ mailConf.canContact

ForwardedWithoutApproval ==
    \A email \in ExternalEmails :
        (/\ WebhookHandles(email)
         /\ email.recipient[1] \in DirectLocalParts
         /\ CanBeEmailedDirectly)
        => /\ \A s \in mailConf.subscribers.admins :
                \E m \in sent' : m.to = email.recipient /\ m.bcc = s /\ m.template = "none"
           /\ \A m \in NewlySent : m.template # "email.approve"
           /\ held' = held

ApprovalRequested ==
    \A email \in ExternalEmails :
        (/\ WebhookHandles(email)
         /\ email.recipient[1] \notin DirectLocalParts
         /\ mailConf.exists
         /\ mailConf.subscribers[email.recipient[1]] # {})
        => /\ \A admin \in mailConf.admins :
                \E m \in sent' : m.template = "email.approve" /\ m.bcc = admin
           /\ \A m \in NewlySent : m.template = "email.approve"

DeliveredOnlyWhenApproved ==
    \A m \in NewlySent :
        (m.to[1] \notin DirectLocalParts /\ m.template # "email.approve")
        => mailLog'.handler = "approve" /\ mailLog'.email \in held

\* C12: an email the webhook receives for info, hello, members, admins or
\* organizers @<collectiveSlug>.opencollective.com is forwarded to the
\* subscribers of the 'admins' mailing list with no approval email when the
\* collective exists, has forwardEmails and can be contacted; an email to any
\* other local part makes an 'email.approve' message to each admin and reaches
\* the list only when approved.
C12_ForwardOrApprove ==
    [][ForwardedWithoutApproval /\ ApprovalRequested /\ DeliveredOnlyWhenApproved]_vars

WebhookReceives == webhooks' = webhooks + 1

WatermarkedSendsNothing ==
    (WebhookReceives /\ HasWatermark(mailLog'.email.body))
    => sent' = sent /\ held' = held

ForwardedCarryWatermark ==
    \A m \in sent : m.template = "none" => HasWatermark(m.body)

NeverForwardedTwice ==
    (WebhookReceives /\ mailLog'.email.forwarded)
    => sent' = sent /\ held' = held

\* C13: the webhook sends nothing for an email whose body contains the
\* watermark, every message sendEmailToList sends without a template carries
\* the watermark, and so a message forwarded to a list that the webhook
\* receives again is not forwarded a second time.
C13_NoForwardingLoop ==
    [](ForwardedCarryWatermark) /\ [][WatermarkedSendsNothing /\ NeverForwardedTwice]_vars

\* a forwarded message came back to the webhook and was skipped
C13_Witness ==
    /\ mailLog.handler = "webhook"
    /\ mailLog.email.forwarded
    /\ mailLog.email \in {ReceivedAgain(m) : m \in sent}
    /\ mailLog.response = "Email already processed, skipping"

(***************************************************************************)
(* Properties of the refund rows                                           *)
(***************************************************************************)
\* r is the refund of the transaction t
MirrorsOriginal(r, t) ==
    /\ r.isRefund
    /\ r.amount = -t.amount
    /\ r.amountInHostCurrency = -t.amountInHostCurrency
    /\ r.netAmountInCollectiveCurrency =
          -RoundDiv(t.amountInHostCurrency + t.hostFeeInHostCurrency
                      + t.platformFeeInHostCurrency + t.paymentProcessorFeeInHostCurrency,
                    t.hostCurrencyFxRate)
    /\ t.amount + r.amount = 0
    /\ t.amountInHostCurrency + r.amountInHostCurrency = 0
    /\ r.currency = t.currency
    /\ r.FromCollectiveId = t.FromCollectiveId
    /\ r.CollectiveId = t.CollectiveId
    /\ r.HostCollectiveId = t.HostCollectiveId
    /\ r.PaymentMethodId = t.PaymentMethodId
    /\ r.OrderId = t.OrderId
    /\ r.ExpenseId = t.ExpenseId
    /\ r.hostCurrency = t.hostCurrency
    /\ r.hostCurrencyFxRate = t.hostCurrencyFxRate
    /\ r.kind = t.kind

\* C14: every refund row createRefundTransaction builds has isRefund = true,
\* the amount and the amount in host currency of the original negated, the
\* net amount in collective currency equal to minus the net amount of the
\* original (taken from the original's fees, not the adjusted ones), and the
\* currencies, collectives, payment method, order, expense, fx rate and kind
\* of the original.
C14_RefundMirrorsOriginal ==
    \A c \in RefundCallIds :
        LET call == refundCalls[c] IN
        /\ call.refund # <<>> => MirrorsOriginal(call.refund[1], txs[call.creditId])
        /\ call.refundId # NULL => MirrorsOriginal(txs[call.refundId], txs[call.creditId])
        /\ call.tipRefundId # NULL => MirrorsOriginal(txs[call.tipRefundId], txs[call.tipId])

\* a contribution in a foreign currency was refunded with the processor fee
\* withheld, and the net amount of the refund row is not the one its own fees
\* would give
C14_Witness ==
    \E c \in RefundCallIds :
        LET call == refundCalls[c] IN
        /\ call.outcome = "Refunded"
        /\ call.refundId # NULL
        /\ call.fee = 0
        /\ txs[call.creditId].hostCurrencyFxRate = 2
        /\ txs[call.creditId].paymentProcessorFeeInHostCurrency # 0
        /\ NetAmount(txs[call.refundId]) # txs[call.refundId].netAmountInCollectiveCurrency

(***************************************************************************)
(* Properties of settleDebtsLegacy                                         *)
(***************************************************************************)
SettleStarted == settleCall.pc # "idle"

NothingSettled ==
    /\ settleDb.transactions = {}
    /\ settleDb.expenses = {}
    /\ settleDb.expenseItems = {}
    /\ settleDb.attachedFiles = {}

ChargedTotal == sumBy(settleCall.items)

CreditedTotal ==
    sumBy({i \in settleCall.items :
              i.description \notin {SharedRevenue, Reimbursement, FixedFee}})

\* C15: settleDebtsLegacy creates no Transaction, Expense, ExpenseItem or
\* attached file when the sum of all item amounts (fixed fee included) is
\* below 1000 or chargedHostId is missing, and it creates the credit
\* Transaction only when the items other than 'Shared Revenue', the
\* processor fee reimbursement and the fixed fee sum to more than 0.
C15_SettlementThresholds ==
    SettleStarted =>
        /\ (ChargedTotal < 1000 \/ settleIn.chargedHostId = NULL) => NothingSettled
        /\ settleDb.transactions # {} => CreditedTotal > 0

\* a host with tips to be credited and a fixed fee stays below 10.00 and is
\* skipped
C15_Witness ==
    /\ settleCall.outcome = "skipped"
    /\ \E i \in settleCall.items : i.description = FixedFee
    /\ CreditedTotal > 0
    /\ ChargedTotal < 1000
    /\ NothingSettled

SettleFailed ==
    /\ settleCall.pc = "done"
    /\ settleCall.outcome \notin {"settled", "skipped", "ignored"}

\* C16: a settleDebtsLegacy call that fails after the host was credited
\* leaves no credit Transaction without its settlement Expense and no Expense
\* without its ExpenseItems.
C16_AllOrNothing ==
    SettleFailed =>
        /\ settleDb.transactions # {} => settleDb.expenses # {}
        /\ settleDb.expenses # {} => settleDb.expenseItems # {}

(***************************************************************************)
(* Properties of interleaved calls                                         *)
(***************************************************************************)
RefundsOf(c, creditId) ==
    /\ RefundCallStarted(c)
    /\ refundCalls[c].creditId = creditId
    /\ refundCalls[c].created # {}

\* C17: of two createRefundTransaction calls for one transaction that
\* interleave, both reading the CREDIT transaction before either saved a
\* RefundTransactionId, at most one creates refund transactions.
C17_InterleavedRefundedOnce ==
    \A c, d \in RefundCallIds, creditId \in RowIds(txs) :
        (c # d /\ RefundsOf(c, creditId)) => ~RefundsOf(d, creditId)

\* C18: two executeOrder calls on one order that interleave, both passing
\* the processedAt check before either writes it, do not charge the provider
\* twice.
C18_InterleavedChargedOnce == provider.transactions <= 1

====
